---- MODULE Spec2Model ----
(***************************************************************************)
(* Cursor cache and direction-aware prefetch of the leaderboard service.   *)
(* Strings are sequences of one-character strings; document ids are the    *)
(* integers 1..NumPlayers; `undefined`/`null` is the integer Null.         *)
(***************************************************************************)
EXTENDS Integers, Sequences, FiniteSets, TLC

VARIABLES cache, now, deleted, pendingLast, last, prev, lastOp, calls, ticks,
          walkPos, dCurrent, dLast, dTotal, dResult,
          resolves, offsetTable, listener, cursorTable

vars == <<cache, now, deleted, pendingLast, last, prev, lastOp, calls, ticks,
          walkPos, dCurrent, dLast, dTotal, dResult,
          resolves, offsetTable, listener, cursorTable>>

(* ------------------------------ bounds --------------------------------- *)
NumPlayers == 95
NumA == 25
MaxCalls == 3
MaxOps == 3
MaxTicks == 1
MaxDeleted == 1
MaxDetectPages == 6

(* ------------------------- program constants --------------------------- *)
CURSOR_CACHE_TTL == 60 * 60 * 1000
PREFETCH_WINDOW == 3
ITEMS_PER_PAGE == 10
Null == -1

Disinformer == <<"d","i","s","i","n","f","o","r","m","e","r">>
Netizen == <<"n","e","t","i","z","e","n">>
RankingCriteria == {Disinformer, Netizen}

Min(a, b) == IF a < b THEN a ELSE b
Max(a, b) == IF a > b THEN a ELSE b
CeilDiv(a, b) == (a + b - 1) \div b

(* ------------------------------ strings -------------------------------- *)
\* Code-point order of the characters that occur; "~" stands for U+F8FF.
Alphabet == <<" ", "0", "1", "2", "3", "4", "5", "6", "7", "8", "9", ":",
              "A", "a", "b", "z", "~">>
Ord(ch) == CHOOSE k \in 1..Len(Alphabet) : Alphabet[k] = ch
HighChar == "~"

RECURSIVE LexLess(_, _)
LexLess(u, v) ==
    IF v = <<>> THEN FALSE
    ELSE IF u = <<>> THEN TRUE
    ELSE IF Ord(Head(u)) < Ord(Head(v)) THEN TRUE
    ELSE IF Ord(Head(u)) > Ord(Head(v)) THEN FALSE
    ELSE LexLess(Tail(u), Tail(v))
LexLeq(u, v) == u = v \/ LexLess(u, v)

ToLower(ch) == IF ch = "A" THEN "a" ELSE ch
RECURSIVE TrimLeft(_)
TrimLeft(str) ==
    IF str # <<>> /\ Head(str) = " " THEN TrimLeft(Tail(str)) ELSE str
RECURSIVE TrimRight(_)
TrimRight(str) ==
    IF str # <<>> /\ str[Len(str)] = " "
    THEN TrimRight(SubSeq(str, 1, Len(str) - 1)) ELSE str
\* term.trim().toLowerCase()
searchTermNormalize(term) ==
    LET t == TrimRight(TrimLeft(term))
    IN  [k \in 1..Len(t) |-> ToLower(t[k])]
\* searchTerm ? searchTermNormalize(searchTerm) : undefined; undefined and ""
\* are the same argument to every callee (default parameter "").
NormalizedOf(searchTerm) ==
    IF searchTerm = <<>> THEN <<>> ELSE searchTermNormalize(searchTerm)

(* ---------------------------- the collection --------------------------- *)
Digit(n) == Alphabet[n + 2]
PlayerIds == 1..NumPlayers
\* The seeded documents: ranking fields with ties, unique lower-case names.
PlayerDoc(i) ==
    [ id |-> i,
      totalDisinformerPoints |-> (3 * NumPlayers - i) \div 3,
      totalNetizenPoints |-> i \div 3,
      totalGamesPlayed |-> i % 2,
      username_lowercase |->
          <<IF i <= NumA THEN "a" ELSE "b", Digit((i \div 10) % 10), Digit(i % 10)>> ]

RankingField(mode, i) ==
    IF mode = Netizen THEN PlayerDoc(i).totalNetizenPoints
    ELSE PlayerDoc(i).totalDisinformerPoints

\* orderBy(rankingField desc), orderBy(totalGamesPlayed asc),
\* orderBy(username_lowercase asc): a strictly precedes b.
Before(mode, a, b) ==
    IF RankingField(mode, a) # RankingField(mode, b)
    THEN RankingField(mode, a) > RankingField(mode, b)
    ELSE IF PlayerDoc(a).totalGamesPlayed # PlayerDoc(b).totalGamesPlayed
    THEN PlayerDoc(a).totalGamesPlayed < PlayerDoc(b).totalGamesPlayed
    ELSE LexLess(PlayerDoc(a).username_lowercase, PlayerDoc(b).username_lowercase)

\* where(username_lowercase >= s), where(username_lowercase <= s + U+F8FF)
MatchesSearch(i, s) ==
    s = <<>> \/ ( /\ LexLeq(s, PlayerDoc(i).username_lowercase)
                  /\ LexLeq(PlayerDoc(i).username_lowercase, s \o <<HighChar>>) )

NormSearches == {<<>>, <<"a">>, <<"z">>}

\* Position of every document in the ordering of a mode (1 = first).
RankOf == [m \in RankingCriteria |->
             [i \in PlayerIds |-> 1 + Cardinality({j \in PlayerIds : Before(m, j, i)})]]
OrderOf == [m \in RankingCriteria |->
             [k \in 1..NumPlayers |-> CHOOSE i \in PlayerIds : RankOf[m][i] = k]]
IsMatch == [s \in NormSearches |-> [i \in PlayerIds |-> MatchesSearch(i, s)]]

\* The query built by buildBaseQueryWithoutPagination, evaluated on the
\* documents that exist: the ordered ids of one context.
buildBaseQueryWithoutPagination(mode, s, del) ==
    LET Keep(i) == IsMatch[s][i] /\ i \notin del
    IN  SelectSeq(OrderOf[mode], Keep)

Take(seq, n) == SubSeq(seq, 1, Min(n, Len(seq)))
TakeLast(seq, n) == SubSeq(seq, Max(1, Len(seq) - n + 1), Len(seq))
\* query(base, limit(n))
addPaginationLimitToQuery(base, n) == Take(base, n)
\* query(base, startAfter(doc), limit(n)): doc is an existing document
StartAfterLimit(mode, base, docId, n) ==
    LET After(x) == RankOf[mode][x] > RankOf[mode][docId]
    IN  Take(SelectSeq(base, After), n)
\* query(base, endBefore(doc), limitToLast(n))
EndBeforeLimitToLast(mode, base, docId, n) ==
    LET Bef(x) == RankOf[mode][x] < RankOf[mode][docId]
    IN  TakeLast(SelectSeq(base, Bef), n)
\* getDoc(ref).exists()
DocExists(docId, del) == docId \in PlayerIds /\ docId \notin del
\* getCountFromServer(base)
getTotalCount(mode, s, del) == Len(buildBaseQueryWithoutPagination(mode, s, del))

(* ------------------------------ CursorCache ---------------------------- *)
\* Slip: the search term left out of the key.
getKey_ModeOnly(mode, searchTerm) == mode \o <<":">>

\* `${mode}:${searchTerm}`
getKey(mode, searchTerm) == mode \o <<":">> \o searchTerm

HasEntry(c, key) == key \in DOMAIN c
NewEntry(t) ==
    [cursors |-> <<>>, timestamp |-> t, prefetchedAroundPages |-> {},
     lastAccessedPage |-> Null]

\* Slip: the boundary age TTL counted as expired.
isEntryValid_Strict(c, t, key) ==
    IF ~HasEntry(c, key) THEN FALSE
    ELSE t - c[key].timestamp < CURSOR_CACHE_TTL

isEntryValid(c, t, key) ==
    IF ~HasEntry(c, key) THEN FALSE
    ELSE t - c[key].timestamp <= CURSOR_CACHE_TTL

getCursor(c, t, mode, pageNumber, searchTerm) ==
    LET key == getKey(mode, searchTerm)
    IN  IF ~isEntryValid(c, t, key) THEN Null
        ELSE IF pageNumber \in DOMAIN c[key].cursors
             THEN c[key].cursors[pageNumber] ELSE Null

setCursor(c, t, mode, pageNumber, docId, searchTerm) ==
    LET key == getKey(mode, searchTerm)
        entry == IF ~HasEntry(c, key) THEN NewEntry(t) ELSE c[key]
    IN  (key :> [entry EXCEPT !.cursors = (pageNumber :> docId) @@ @]) @@ c

isPrefetchedAround(c, t, mode, pageNumber, searchTerm) ==
    LET key == getKey(mode, searchTerm)
    IN  IF ~isEntryValid(c, t, key) THEN FALSE
        ELSE pageNumber \in c[key].prefetchedAroundPages

markPrefetchedAround(c, t, mode, pageNumber, searchTerm) ==
    LET key == getKey(mode, searchTerm)
        entry == IF ~HasEntry(c, key) THEN NewEntry(t) ELSE c[key]
    IN  (key :> [entry EXCEPT !.prefetchedAroundPages = @ \cup {pageNumber}]) @@ c

getStats(c, t, mode, searchTerm) ==
    LET key == getKey(mode, searchTerm)
    IN  IF ~HasEntry(c, key)
        THEN [totalCursors |-> 0, cacheAge |-> 0, isExpired |-> TRUE]
        ELSE [totalCursors |-> Cardinality(DOMAIN c[key].cursors),
              cacheAge |-> t - c[key].timestamp,
              isExpired |-> t - c[key].timestamp > CURSOR_CACHE_TTL]

getLastAccessedPage(c, t, mode, searchTerm) ==
    LET key == getKey(mode, searchTerm)
    IN  IF ~isEntryValid(c, t, key) THEN Null
        ELSE c[key].lastAccessedPage

\* Slip: an access renews the timestamp of the entry.
recordPageAccess_Touch(c, t, mode, pageNumber, searchTerm) ==
    LET key == getKey(mode, searchTerm)
    IN  (key :> [NewEntry(t) EXCEPT
                    !.lastAccessedPage = pageNumber,
                    !.cursors = IF HasEntry(c, key) THEN c[key].cursors ELSE <<>>,
                    !.prefetchedAroundPages =
                        IF HasEntry(c, key) THEN c[key].prefetchedAroundPages
                        ELSE {}]) @@ c

recordPageAccess(c, t, mode, pageNumber, searchTerm) ==
    LET key == getKey(mode, searchTerm)
    IN  IF ~HasEntry(c, key)
        THEN (key :> [NewEntry(t) EXCEPT !.lastAccessedPage = pageNumber]) @@ c
        ELSE [c EXCEPT ![key].lastAccessedPage = pageNumber]

invalidate(c, mode, searchTerm) ==
    LET key == getKey(mode, searchTerm)
    IN  [k \in DOMAIN c \ {key} |-> c[k]]

(* ----------------------- detectNavigationDirection --------------------- *)
\* Slip: no history always read as forward navigation.
detectNavigationDirection_NoHistoryForward(currentPage, lastAccessedPage, totalPages) ==
    IF lastAccessedPage = Null THEN "Forward"
    ELSE IF currentPage = 1 THEN "JumpToStart"
    ELSE IF currentPage = totalPages THEN "JumpToEnd"
    ELSE IF currentPage > lastAccessedPage THEN "Forward"
    ELSE IF currentPage < lastAccessedPage THEN "Backward"
    ELSE "Forward"

detectNavigationDirection(currentPage, lastAccessedPage, totalPages) ==
    IF lastAccessedPage = Null
    THEN IF currentPage = 1 THEN "JumpToStart"
         ELSE IF currentPage = totalPages THEN "JumpToEnd"
         ELSE "Forward"
    ELSE IF currentPage = 1 THEN "JumpToStart"
    ELSE IF currentPage = totalPages THEN "JumpToEnd"
    ELSE IF currentPage > lastAccessedPage THEN "Forward"
    ELSE IF currentPage < lastAccessedPage THEN "Backward"
    ELSE "Forward"

(* -------------------------- prefetchCursorsAround ---------------------- *)
\* Slip: the backward range extended past the target page.
PrefetchRange_PastTarget(direction, currentPage, totalPages) ==
    IF direction = "JumpToStart"
    THEN [startPage |-> 1, endPage |-> Min(totalPages, 1 + PREFETCH_WINDOW),
          useBackwardFetch |-> FALSE]
    ELSE [startPage |-> Max(1, currentPage - PREFETCH_WINDOW),
          endPage |-> Min(totalPages, currentPage + PREFETCH_WINDOW),
          useBackwardFetch |-> direction \in {"Backward", "JumpToEnd"}]

\* The switch on the direction: [startPage, endPage, useBackwardFetch].
PrefetchRange(direction, currentPage, totalPages) ==
    IF direction \in {"Backward", "JumpToEnd"}
    THEN [startPage |-> Max(1, currentPage - PREFETCH_WINDOW),
          endPage |-> currentPage, useBackwardFetch |-> TRUE]
    ELSE IF direction = "JumpToStart"
    THEN [startPage |-> 1, endPage |-> Min(totalPages, 1 + PREFETCH_WINDOW),
          useBackwardFetch |-> FALSE]
    ELSE [startPage |-> Max(1, currentPage - PREFETCH_WINDOW),
          endPage |-> Min(totalPages, currentPage + PREFETCH_WINDOW),
          useBackwardFetch |-> FALSE]

MissingPages(c, t, mode, s, startPage, endPage) ==
    {page \in startPage..endPage : getCursor(c, t, mode, page, s) = Null}

\* The external fetches that can be made to fail, by the place that issues
\* them; fail is the set of places whose fetch rejects during one call.
FailurePoints == {"count", "backwardAnchorDoc", "backwardScan", "forwardAnchorDoc",
                  "forwardScan", "lastPageScan", "pageAnchorDoc", "pageFetch"}

\* startAfter()/endBefore() reject the snapshot of a document that does not
\* exist: threw = TRUE.  ops counts the getDoc and getDocs calls issued.
executeForwardFetch(c, t, del, base, startPage, endPage, mode, s, currentOps, fail) ==
    LET docsToFetch == (endPage - startPage + 1) * ITEMS_PER_PAGE
        anchorCursorDocId == getCursor(c, t, mode, startPage - 1, s)
        Threw(n) == [allDocs |-> <<>>, ops |-> currentOps + n,
                     fetchedFromStart |-> FALSE, threw |-> TRUE]
    IN  IF startPage > 1
        THEN IF anchorCursorDocId # Null
             THEN IF "forwardAnchorDoc" \in fail THEN Threw(1)
                  ELSE IF ~DocExists(anchorCursorDocId, del) THEN Threw(1)
                  ELSE IF "forwardScan" \in fail THEN Threw(2)
                  ELSE [allDocs |-> StartAfterLimit(mode, base, anchorCursorDocId,
                                                    docsToFetch + 1),
                        ops |-> currentOps + 2, fetchedFromStart |-> FALSE,
                        threw |-> FALSE]
             ELSE IF "forwardScan" \in fail THEN Threw(1)
                  ELSE [allDocs |-> Take(base, endPage * ITEMS_PER_PAGE + 1),
                        ops |-> currentOps + 1, fetchedFromStart |-> TRUE,
                        threw |-> FALSE]
        ELSE IF "forwardScan" \in fail THEN Threw(1)
             ELSE [allDocs |-> Take(base, docsToFetch + 1), ops |-> currentOps + 1,
                   fetchedFromStart |-> FALSE, threw |-> FALSE]

\* The scan of prefetchCursorsAround: backward when a cursor of endPage is
\* cached (forward on its failure), forward otherwise.
PrefetchScan(c, t, del, base, rng, mode, s, fail) ==
    LET docsToFetch == (rng.endPage - rng.startPage + 1) * ITEMS_PER_PAGE
        cursorDocId == getCursor(c, t, mode, rng.endPage, s)
        fwd(ops) == executeForwardFetch(c, t, del, base, rng.startPage,
                                        rng.endPage, mode, s, ops, fail)
                    @@ [isBackwardFetch |-> FALSE, fellBack |-> ops > 0]
    IN  IF rng.useBackwardFetch
        THEN IF cursorDocId # Null
             THEN IF "backwardAnchorDoc" \in fail THEN fwd(1)
                  ELSE IF ~DocExists(cursorDocId, del) THEN fwd(1)
                  ELSE IF "backwardScan" \in fail THEN fwd(2)
                  ELSE [allDocs |-> EndBeforeLimitToLast(mode, base, cursorDocId,
                                                         docsToFetch),
                        ops |-> 2, fetchedFromStart |-> FALSE, threw |-> FALSE,
                        isBackwardFetch |-> TRUE, fellBack |-> FALSE]
             ELSE fwd(0)
        ELSE fwd(0)

\* cursorCache.setCursor(mode, page(i), allDocs[i].id, s) for the indices of
\* hits in increasing order (i 0-based as in the code).
RECURSIVE SetCursorsAt(_, _, _, _, _, _, _)
SetCursorsAt(c, t, allDocs, hits, PageAt, mode, s) ==
    IF hits = {} THEN c
    ELSE LET i == CHOOSE x \in hits : \A y \in hits : x <= y
         IN  SetCursorsAt(setCursor(c, t, mode, PageAt[i], allDocs[i + 1], s),
                          t, allDocs, hits \ {i}, PageAt, mode, s)

\* for (i = 0; i < allDocs.length; i++) of the backward branch: every page
\* number is met at one index only, so missingPages.delete never hides a
\* later index.
CacheBackward(c, t, allDocs, startPage, endPage, missing, mode, s) ==
    LET PageAt == [i \in 0..(Len(allDocs) - 1) |->
                      startPage + (i \div ITEMS_PER_PAGE)]
        hits == {i \in 0..(Len(allDocs) - 1) :
                    /\ (i + 1) % ITEMS_PER_PAGE = 0
                    /\ PageAt[i] <= endPage - 1
                    /\ PageAt[i] \in missing}
    IN  SetCursorsAt(c, t, allDocs, hits, PageAt, mode, s)

\* for (i = docOffset; i < allDocs.length; i++) of the forward branch
CacheForward(c, t, allDocs, docOffset, startPage, endPage, missing, mode, s) ==
    LET PageAt == [i \in 0..(Len(allDocs) - 1) |-> (i \div ITEMS_PER_PAGE) + 1]
        hits == {i \in docOffset..(Len(allDocs) - 1) :
                    /\ (i + 1) % ITEMS_PER_PAGE = 0
                    /\ PageAt[i] >= startPage /\ PageAt[i] <= endPage
                    /\ PageAt[i] \in missing}
    IN  SetCursorsAt(c, t, allDocs, hits, PageAt, mode, s)

\* What a pass that issued no scan reports about its scan.
NoScan == [ran |-> FALSE]

\* Slip: the page marked as attempted whether or not the scan threw.
CachePrefetched_MarkAttempted(c, t, f, startPage, endPage, missingPages, currentPage, mode, s) ==
    [cache |-> markPrefetchedAround(
                   IF f.threw THEN c
                   ELSE IF f.isBackwardFetch
                   THEN CacheBackward(c, t, f.allDocs, startPage, endPage,
                                      missingPages, mode, s)
                   ELSE CacheForward(c, t, f.allDocs,
                                     IF f.fetchedFromStart
                                     THEN (startPage - 1) * ITEMS_PER_PAGE ELSE 0,
                                     startPage, endPage, missingPages, mode, s),
                   t, mode, currentPage, s),
     ops |-> f.ops,
     scan |-> [ran |-> TRUE, threw |-> f.threw, backward |-> f.isBackwardFetch,
               raised |-> f.threw \/ f.fellBack,
               fetchedFromStart |-> f.fetchedFromStart,
               startPage |-> startPage, endPage |-> endPage,
               missing |-> missingPages]]

\* The caching loop over the fetched documents f, then markPrefetchedAround;
\* a fetch that threw is caught and leaves the cache as it was.  scan tells
\* which scan ran, over which range and for which missing pages.
CachePrefetched(c, t, f, startPage, endPage, missingPages, currentPage, mode, s) ==
    LET docOffset == IF f.fetchedFromStart
                     THEN (startPage - 1) * ITEMS_PER_PAGE ELSE 0
        cached == IF f.isBackwardFetch
                  THEN CacheBackward(c, t, f.allDocs, startPage, endPage,
                                     missingPages, mode, s)
                  ELSE CacheForward(c, t, f.allDocs, docOffset, startPage,
                                    endPage, missingPages, mode, s)
        scan == [ran |-> TRUE, threw |-> f.threw, backward |-> f.isBackwardFetch,
                 raised |-> f.threw \/ f.fellBack,
                 fetchedFromStart |-> f.fetchedFromStart,
                 startPage |-> startPage, endPage |-> endPage,
                 missing |-> missingPages]
    IN  IF f.threw THEN [cache |-> c, ops |-> f.ops, scan |-> scan]
        ELSE [cache |-> markPrefetchedAround(cached, t, mode, currentPage, s),
              ops |-> f.ops, scan |-> scan]

\* Result: the cache after the pass and the fetches it issued.
prefetchCursorsAround(c, t, del, base, totalPages, currentPage, mode, s, fail) ==
    IF isPrefetchedAround(c, t, mode, currentPage, s)
    THEN [cache |-> c, ops |-> 0, scan |-> NoScan]
    ELSE
    LET lastAccessedPage == getLastAccessedPage(c, t, mode, s)
        direction == detectNavigationDirection(currentPage, lastAccessedPage,
                                               totalPages)
        rng == PrefetchRange(direction, currentPage, totalPages)
        missingPages == MissingPages(c, t, mode, s, rng.startPage, rng.endPage)
    IN  IF missingPages = {}
        THEN [cache |-> markPrefetchedAround(c, t, mode, currentPage, s),
              ops |-> 0, scan |-> NoScan]
        ELSE CachePrefetched(c, t,
                             PrefetchScan(c, t, del, base, rng, mode, s, fail),
                             rng.startPage, rng.endPage, missingPages,
                             currentPage, mode, s)

(* -------------------------- prefetchLastPageCursor --------------------- *)
\* Slip: the last-page query issued only when its anchor is already cached.
LastPageFetchIssued_WhenCached(c, t, totalPages, mode, s) ==
    getCursor(c, t, mode, totalPages, s) # Null

\* The synchronous part: TRUE when the limitToLast(1) query is issued.
LastPageFetchIssued(c, t, totalPages, mode, s) ==
    getCursor(c, t, mode, totalPages, s) = Null
\* Slip: the last document stored as the anchor of the page before the last.
LastPageFetchDone_PrevPage(c, t, del, totalPages, mode, s) ==
    LET docs == TakeLast(buildBaseQueryWithoutPagination(mode, s, del), 1)
    IN  IF Len(docs) > 0 THEN setCursor(c, t, mode, totalPages - 1, docs[1], s)
        ELSE c

\* The continuation after `await getDocs`.
LastPageFetchDone(c, t, del, totalPages, mode, s) ==
    LET docs == TakeLast(buildBaseQueryWithoutPagination(mode, s, del), 1)
    IN  IF Len(docs) > 0 THEN setCursor(c, t, mode, totalPages, docs[1], s)
        ELSE c

(* ------------------------- getPaginatedLeaderboard --------------------- *)
\* allDocs.slice(startIdx, endIdx), 0-based and end-exclusive; a negative
\* index counts from the end of the array.
Slice(seq, startIdx, endIdx) ==
    LET from == IF startIdx < 0 THEN Max(Len(seq) + startIdx, 0)
                ELSE Min(startIdx, Len(seq))
        to == IF endIdx < 0 THEN Max(Len(seq) + endIdx, 0)
              ELSE Min(endIdx, Len(seq))
    IN  IF from >= to THEN <<>> ELSE SubSeq(seq, from + 1, to)

\* Slip: an over-large page clamped to the last page.
ValidatePage_Nearest(pageNumberIn, totalPages) ==
    IF pageNumberIn < 1 THEN 1
    ELSE IF pageNumberIn > totalPages THEN totalPages ELSE pageNumberIn

\* Step 2: if (pageNumber < 1 || pageNumber > totalPages) pageNumber = 1
ValidatePage(pageNumberIn, totalPages) ==
    IF pageNumberIn < 1 \/ pageNumberIn > totalPages THEN 1 ELSE pageNumberIn

\* Slip: the slice taken from the head of the fetched records.
StartIdx_Zero(fetchedFromStart, pageNumber) == 0

\* Step 7: startIdx = fetchedFromStart ? (pageNumber - 1) * ITEMS_PER_PAGE : 0
StartIdx(fetchedFromStart, pageNumber) ==
    IF fetchedFromStart THEN (pageNumber - 1) * ITEMS_PER_PAGE ELSE 0

\* What a rejected call returns in place of a page.
NoResult == [players |-> <<>>, totalPages |-> 0, currentPage |-> 0,
             hasNextPage |-> FALSE, hasPrevPage |-> FALSE]

\* Slip: an error of the prefetch scan thrown on to the caller.
CallRejects_PrefetchFatal(scan, docThrew, fail) ==
    docThrew \/ "pageFetch" \in fail \/ (scan.ran /\ scan.threw)

\* The errors that reach the catch of getPaginatedLeaderboard, which rethrows:
\* those of the anchor document read and of the page query.  The scan's own
\* errors were caught inside prefetchCursorsAround.
CallRejects(scan, docThrew, fail) == docThrew \/ "pageFetch" \in fail

\* Slip: the page access recorded before the page query is awaited.
AccessRecorded_Early(c, threw, t, mode, pageNumber, s) ==
    recordPageAccess(c, t, mode, pageNumber, s)

\* Step 8 is reached only when no await before it threw.
AccessRecorded(c, threw, t, mode, pageNumber, s) ==
    IF threw THEN c ELSE recordPageAccess(c, t, mode, pageNumber, s)

\* Steps 5 to 9 of a call, on the outcome pf of the prefetch pass.  path is
\* the branch of step 5 that was taken, limit the limit() of the page query,
\* ops the number of external fetches (count, getDoc, getDocs) the call
\* issued, issuedLast whether the un-awaited prefetchLastPageCursor left a
\* query in flight, rejected whether the call threw.  Players are
\* represented by their ids.
FetchPage(pf, t, del, baseQuery, totalPages, pageNumber, mode, s, fail) ==
    LET issuedLast == LastPageFetchIssued(pf.cache, t, totalPages, mode, s)
        cursorDocId == getCursor(pf.cache, t, mode, pageNumber - 1, s)
        path == IF pageNumber > 1
                THEN IF cursorDocId # Null
                     THEN IF DocExists(cursorDocId, del) THEN "anchor" ELSE "stale"
                     ELSE "miss"
                ELSE "first"
        fetchedFromStart == path \in {"stale", "miss"}
        limit == IF fetchedFromStart THEN pageNumber * ITEMS_PER_PAGE + 1
                 ELSE ITEMS_PER_PAGE + 1
        allDocs == IF path = "anchor"
                   THEN StartAfterLimit(mode, baseQuery, cursorDocId, limit)
                   ELSE addPaginationLimitToQuery(baseQuery, limit)
        startIdx == StartIdx(fetchedFromStart, pageNumber)
        endIdx == startIdx + ITEMS_PER_PAGE
        players == Slice(allDocs, startIdx, endIdx)
        docThrew == path \in {"anchor", "stale"} /\ "pageAnchorDoc" \in fail
        threw == CallRejects(pf.scan, docThrew, fail)
    IN  [cache |-> AccessRecorded(pf.cache, threw, t, mode, pageNumber, s),
         issuedLast |-> issuedLast,
         rejected |-> threw,
         result |-> IF threw THEN NoResult
                    ELSE [players |-> players,
                          totalPages |-> totalPages,
                          currentPage |-> pageNumber,
                          hasNextPage |-> pageNumber < totalPages,
                          hasPrevPage |-> pageNumber > 1],
         path |-> path,
         anchor |-> cursorDocId,
         limit |-> limit,
         ops |-> 1 + pf.ops + (IF issuedLast THEN 1 ELSE 0)
                   + (IF path \in {"anchor", "stale"} THEN 1 ELSE 0)
                   + (IF docThrew THEN 0 ELSE 1),
         scan |-> pf.scan]

\* One whole call at time t on the documents not in del; a failed count
\* query rejects the call before anything else is done.
getPaginatedLeaderboard(c, t, del, pageNumberIn, mode, searchTerm, fail) ==
    LET searchTermNormalized == NormalizedOf(searchTerm)
        baseQuery == buildBaseQueryWithoutPagination(mode, searchTermNormalized, del)
        totalPlayers == Len(baseQuery)
        totalPages == CeilDiv(totalPlayers, ITEMS_PER_PAGE)
        pageNumber == ValidatePage(pageNumberIn, totalPages)
    IN  IF "count" \in fail
        THEN [cache |-> c, issuedLast |-> FALSE, rejected |-> TRUE,
              result |-> NoResult, path |-> "none", anchor |-> Null,
              limit |-> 0, ops |-> 1, scan |-> NoScan]
        ELSE FetchPage(prefetchCursorsAround(c, t, del, baseQuery, totalPages,
                                             pageNumber, mode,
                                             searchTermNormalized, fail),
                       t, del, baseQuery, totalPages, pageNumber, mode,
                       searchTermNormalized, fail)

(* ------------------------------- the state ----------------------------- *)
\* cache        the module-level CursorCache (key -> entry)
\* now          Date.now()
\* deleted      documents removed from the collection since the start
\* pendingLast  prefetchLastPageCursor queries in flight
\* last, prev   the two most recent getPaginatedLeaderboard calls
\* lastOp       the most recent operation and the context it addressed
\* walkPos      the page each context of a sequential walk has reached
\* dCurrent..dResult  inputs and result of detectNavigationDirection
NoCall == [req |-> [page |-> 0, mode |-> <<>>, search |-> <<>>], done |-> FALSE,
           rejected |-> FALSE]
NoOp == [op |-> "none"]

PageInputs == {-3, 0, 1, 5, 9, 10, 11}
RawSearches == {<<>>, <<" ", "A">>, <<"z">>}
Requests ==
    {[page |-> p, mode |-> Disinformer, search |-> <<>>] : p \in PageInputs}
    \cup {[page |-> p, mode |-> Netizen, search |-> <<" ", "A">>] : p \in {3, 4}}
    \cup {[page |-> 2, mode |-> Netizen, search |-> <<"z">>]}
\* The contexts walked page by page, and the requests made after a deletion.
WalkContexts == <<[mode |-> Disinformer, search |-> <<>>],
                  [mode |-> Netizen, search |-> <<" ", "A">>]>>
StaleRequests ==
    {[page |-> p, mode |-> Disinformer, search |-> <<>>] : p \in {1, 5, 10}}
DeleteCandidates == {10, 40, 95}
\* The failures injected into a call.
FailSets == {{}, {"count"}, {"pageFetch"}, {"pageAnchorDoc"}, {"lastPageScan"},
             {"forwardScan"}, {"forwardAnchorDoc"}, {"backwardAnchorDoc"},
             {"backwardScan"}, {"backwardScan", "forwardScan"}}
FailRequests ==
    {[page |-> p, mode |-> Disinformer, search |-> <<>>] : p \in {1, 5, 6, 10}}
\* Arguments of the direct CursorCache operations.
CacheContexts == {<<Disinformer, <<>>>>, <<Netizen, <<>>>>, <<Netizen, <<"a">>>>}
CachePages == {1, 2}
CacheDocIds == {10, 20}
TickSteps == {CURSOR_CACHE_TTL, CURSOR_CACHE_TTL + 1}

(* ----------------- subscribeToLeaderboardWithPagination ----------------- *)
\* The snapshot callback of a listener created with pageNumber, run on a
\* snapshot of the documents not in del: the cache with every page boundary
\* of the snapshot stored, and the result handed to onUpdate.
subscribeToLeaderboardWithPagination(c, t, del, pageNumber, mode, searchTerm) ==
    LET searchTermNormalized == NormalizedOf(searchTerm)
        allPlayers == buildBaseQueryWithoutPagination(mode, searchTermNormalized, del)
        totalPlayers == Len(allPlayers)
        totalPages == IF CeilDiv(totalPlayers, ITEMS_PER_PAGE) = 0 THEN 1
                      ELSE CeilDiv(totalPlayers, ITEMS_PER_PAGE)
        validPageNumber == Min(pageNumber, totalPages)
        pageForDoc == [index \in 0..(totalPlayers - 1) |->
                          (index \div ITEMS_PER_PAGE) + 1]
        boundaries == {index \in 0..(totalPlayers - 1) :
                          index % ITEMS_PER_PAGE = ITEMS_PER_PAGE - 1}
        startIdx == (validPageNumber - 1) * ITEMS_PER_PAGE
        endIdx == startIdx + ITEMS_PER_PAGE
    IN  [cache |-> SetCursorsAt(c, t, allPlayers, boundaries, pageForDoc, mode,
                                searchTermNormalized),
         update |-> [players |-> Slice(allPlayers, startIdx, endIdx),
                     totalPages |-> totalPages,
                     currentPage |-> validPageNumber,
                     hasNextPage |-> validPageNumber < totalPages,
                     hasPrevPage |-> validPageNumber > 1]]

\* The listener of the cursor-based table: the arguments it was created
\* with and the last result it handed to onUpdate.
NoListener == [active |-> FALSE, pageNumber |-> 0, mode |-> <<>>,
               searchTerm |-> <<>>, delivered |-> FALSE, del |-> {},
               update |-> NoResult]
ListenerPages == {-3, 0, 1, 3, 11}
ListenerRequests ==
    {[page |-> p, mode |-> Disinformer, search |-> <<>>] : p \in ListenerPages}
    \cup {[page |-> p, mode |-> Netizen, search |-> q] :
             p \in ListenerPages, q \in {<<" ", "A">>, <<"z">>}}

(* ------------------------ the offset-based service --------------------- *)
\* getPaginatedLeaderboard of the offset service on the documents not in del.
getPaginatedLeaderboardOffset(del, page, mode, searchTerm) ==
    LET normalizedPage == Max(1, page)
        sortedQuery == buildBaseQueryWithoutPagination(mode, NormalizedOf(searchTerm), del)
        totalPages == CeilDiv(Len(sortedQuery), ITEMS_PER_PAGE)
        validPage == Min(normalizedPage, Max(1, totalPages))
        pageOffset == (validPage - 1) * ITEMS_PER_PAGE
    IN  [players |-> Take(Slice(sortedQuery, pageOffset, Len(sortedQuery)),
                          ITEMS_PER_PAGE),
         totalPages |-> totalPages,
         currentPage |-> validPage,
         hasNextPage |-> validPage < totalPages,
         hasPrevPage |-> validPage > 1]

\* LeaderboardTableOffsetBased as mounted by the page: its state, the values
\* closed over by the handler its subscription holds (sub), the
\* fetchLeaderboardData calls in flight, and what the last notification did.
NoNotice == [refetched |-> Null, displayed |-> Null]
MountedTable ==
    [currentPage |-> 1, mode |-> Disinformer, searchTerm |-> <<>>,
     data |-> getPaginatedLeaderboardOffset({}, 1, Disinformer, <<>>),
     sub |-> [currentPage |-> 1, mode |-> Disinformer, searchTerm |-> <<>>,
              isInitialSnapshot |-> TRUE, snapshots |-> 0, invoked |-> 0],
     fetching |-> {}, notice |-> NoNotice, events |-> 0]

\* A getPaginatedLeaderboard call that runs step by step, suspended at its
\* awaits: pc is the await it is suspended at, f the scan it has in flight.
ResolveIds == 1..2
NoFetch == [allDocs |-> <<>>, ops |-> 0, fetchedFromStart |-> FALSE,
            threw |-> FALSE, isBackwardFetch |-> FALSE, fellBack |-> FALSE]
IdleResolve == [pc |-> "idle", req |-> NoCall.req, totalPages |-> 0,
                pageNumber |-> 0, f |-> NoFetch, startPage |-> 0, endPage |-> 0,
                missing |-> {}, path |-> "none", result |-> NoResult]

\* LeaderboardTableCursorBased as mounted by the page on page 1: its
\* currentPage and data states, the getPaginatedLeaderboard calls of
\* fetchLeaderboardData in flight, the page its live listener was created
\* with, whether that listener still owes its first snapshot, and the
\* number of page changes made.
MountedCursorTable ==
    [currentPage |-> 1,
     data |-> getPaginatedLeaderboard(<<>>, 0, {}, 1, Disinformer, <<>>, {}).result,
     fetching |-> {}, subPage |-> 1, snapshotDue |-> TRUE, changes |-> 0]

\* The state of the parts outside the cursor service of one page: no resolve
\* under way, the offset-based table as mounted, no listener attached.
InitParts ==
    /\ resolves = [i \in ResolveIds |-> IdleResolve]
    /\ offsetTable = MountedTable
    /\ listener = NoListener
    /\ cursorTable = MountedCursorTable

Init ==
    /\ InitParts
    /\ cache = <<>>
    /\ now = 0
    /\ deleted = {}
    /\ pendingLast = {}
    /\ last = NoCall
    /\ prev = NoCall
    /\ lastOp = NoOp
    /\ calls = 0
    /\ ticks = 0
    /\ walkPos = [k \in 1..Len(WalkContexts) |-> 0]
    /\ dCurrent = 1 /\ dLast = Null /\ dTotal = 1 /\ dResult = "none"

\* What a call that returned or rejected (r) leaves in the state.  A last-page
\* query that is going to fail is in flight like any other.
Returned(req, s, r, fail) ==
    /\ cache' = r.cache
    /\ pendingLast' = IF r.issuedLast
                      THEN pendingLast \cup {[mode |-> req.mode, search |-> s,
                                              totalPages |-> r.result.totalPages,
                                              fails |-> "lastPageScan" \in fail]}
                      ELSE pendingLast
    /\ prev' = last
    /\ last' = [req |-> req, done |-> ~r.rejected, rejected |-> r.rejected,
                fail |-> fail, at |-> now, del |-> deleted,
                result |-> r.result,
                path |-> r.path, anchor |-> r.anchor, limit |-> r.limit,
                ops |-> r.ops, scan |-> r.scan,
                lastBefore |-> getLastAccessedPage(cache, now, req.mode, s)]
    /\ lastOp' = [op |-> "getPaginatedLeaderboard", mode |-> req.mode,
                  search |-> s]

CallEffect(req, fail) ==
    Returned(req, NormalizedOf(req.search),
             getPaginatedLeaderboard(cache, now, deleted, req.page, req.mode,
                                     req.search, fail),
             fail)

\* await getPaginatedLeaderboard(page, mode, search)
Call ==
    /\ calls < MaxCalls
    /\ \E req \in Requests : CallEffect(req, {})
    /\ calls' = calls + 1
    /\ UNCHANGED <<now, deleted, ticks, walkPos, dCurrent, dLast, dTotal, dResult,
                   resolves, offsetTable, listener, cursorTable>>

\* The same call, made while documents may have been deleted.
CallAfterChange ==
    /\ calls < MaxCalls
    /\ \E req \in StaleRequests : CallEffect(req, {})
    /\ calls' = calls + 1
    /\ UNCHANGED <<now, deleted, ticks, walkPos, dCurrent, dLast, dTotal, dResult,
                   resolves, offsetTable, listener, cursorTable>>

\* A call during which the fetches of the places in fail reject.
CallFailing ==
    /\ calls < MaxCalls
    /\ \E req \in FailRequests, fail \in FailSets : CallEffect(req, fail)
    /\ calls' = calls + 1
    /\ UNCHANGED <<now, deleted, ticks, walkPos, dCurrent, dLast, dTotal, dResult,
                   resolves, offsetTable, listener, cursorTable>>

\* A player document is deleted from the collection.
DeletePlayer ==
    /\ Cardinality(deleted) < MaxDeleted
    /\ \E i \in DeleteCandidates \ deleted : deleted' = deleted \cup {i}
    /\ lastOp' = NoOp
    /\ UNCHANGED <<cache, now, pendingLast, last, prev, calls, ticks, walkPos,
                   dCurrent, dLast, dTotal, dResult,
                   resolves, offsetTable, listener, cursorTable>>

\* The next page of a sequential walk 1 -> 2 -> ... over one context.
WalkStep ==
    /\ \E k \in 1..Len(WalkContexts) :
          LET ctx == WalkContexts[k]
              totalPages == CeilDiv(getTotalCount(ctx.mode, NormalizedOf(ctx.search),
                                                  deleted), ITEMS_PER_PAGE)
          IN  /\ walkPos[k] < totalPages
              /\ CallEffect([page |-> walkPos[k] + 1, mode |-> ctx.mode,
                             search |-> ctx.search], {})
              /\ walkPos' = [walkPos EXCEPT ![k] = @ + 1]
    /\ UNCHANGED <<now, deleted, calls, ticks, dCurrent, dLast, dTotal, dResult,
                   resolves, offsetTable, listener, cursorTable>>

\* Direct operations on the CursorCache object.
CacheFrame == UNCHANGED <<now, deleted, pendingLast, last, prev, ticks, walkPos,
                          dCurrent, dLast, dTotal, dResult,
                   resolves, offsetTable, listener, cursorTable>>
ExpiredEntry(c, t, key) == key \in DOMAIN c /\ ~isEntryValid(c, t, key)

OpSetCursor ==
    /\ calls < MaxOps
    /\ \E ctx \in CacheContexts, p \in CachePages, id \in CacheDocIds :
          /\ cache' = setCursor(cache, now, ctx[1], p, id, ctx[2])
          /\ lastOp' = [op |-> "setCursor", mode |-> ctx[1], search |-> ctx[2],
                        page |-> p, docId |-> id,
                        wasExpired |-> ExpiredEntry(cache, now, getKey(ctx[1], ctx[2])),
                        before |-> cache]
    /\ calls' = calls + 1
    /\ CacheFrame

OpMarkPrefetchedAround ==
    /\ calls < MaxOps
    /\ \E ctx \in CacheContexts, p \in CachePages :
          /\ cache' = markPrefetchedAround(cache, now, ctx[1], p, ctx[2])
          /\ lastOp' = [op |-> "markPrefetchedAround", mode |-> ctx[1],
                        search |-> ctx[2], page |-> p, docId |-> Null,
                        wasExpired |-> ExpiredEntry(cache, now, getKey(ctx[1], ctx[2])),
                        before |-> cache]
    /\ calls' = calls + 1
    /\ CacheFrame

OpRecordPageAccess ==
    /\ calls < MaxOps
    /\ \E ctx \in CacheContexts, p \in CachePages :
          /\ cache' = recordPageAccess(cache, now, ctx[1], p, ctx[2])
          /\ lastOp' = [op |-> "recordPageAccess", mode |-> ctx[1],
                        search |-> ctx[2], page |-> p, docId |-> Null,
                        wasExpired |-> ExpiredEntry(cache, now, getKey(ctx[1], ctx[2])),
                        before |-> cache]
    /\ calls' = calls + 1
    /\ CacheFrame

OpInvalidate ==
    /\ calls < MaxOps
    /\ \E ctx \in CacheContexts :
          /\ cache' = invalidate(cache, ctx[1], ctx[2])
          /\ lastOp' = [op |-> "invalidate", mode |-> ctx[1], search |-> ctx[2],
                        page |-> Null, docId |-> Null, wasExpired |-> FALSE,
                        before |-> cache]
    /\ calls' = calls + 1
    /\ CacheFrame

\* detectNavigationDirection applied to the drawn inputs.
Detect ==
    /\ dResult = "none"
    /\ dResult' = detectNavigationDirection(dCurrent, dLast, dTotal)
    /\ UNCHANGED <<cache, now, deleted, pendingLast, last, prev, lastOp, calls,
                   ticks, walkPos, dCurrent, dLast, dTotal,
                   resolves, offsetTable, listener, cursorTable>>

InitDetect ==
    /\ InitParts
    /\ cache = <<>> /\ now = 0 /\ deleted = {} /\ pendingLast = {}
    /\ last = NoCall /\ prev = NoCall /\ lastOp = NoOp
    /\ calls = 0 /\ ticks = 0
    /\ walkPos = [k \in 1..Len(WalkContexts) |-> 0]
    /\ dTotal \in 1..MaxDetectPages
    /\ dCurrent \in 1..dTotal
    /\ dLast \in {Null} \cup (1..dTotal)
    /\ dResult = "none"

(* ------------------- the listener of the cursor table ------------------ *)
ListenerFrame == UNCHANGED <<now, deleted, pendingLast, last, prev, ticks,
                             walkPos, dCurrent, dLast, dTotal, dResult,
                             resolves, offsetTable, cursorTable>>

\* The effect of the table subscribes with its current page, mode and search.
ListenerSubscribe ==
    /\ calls < MaxCalls
    /\ \E req \in ListenerRequests :
          listener' = [NoListener EXCEPT !.active = TRUE, !.pageNumber = req.page,
                                         !.mode = req.mode,
                                         !.searchTerm = req.search]
    /\ calls' = calls + 1
    /\ lastOp' = NoOp
    /\ UNCHANGED cache
    /\ ListenerFrame

\* What a delivered snapshot leaves in the state.
Delivered(r) ==
    /\ cache' = r.cache
    /\ listener' = [listener EXCEPT !.delivered = TRUE, !.del = deleted,
                                    !.update = r.update]

\* onSnapshot hands the listener a snapshot of the query.
ListenerSnapshot ==
    /\ listener.active
    /\ Delivered(subscribeToLeaderboardWithPagination(
                     cache, now, deleted, listener.pageNumber, listener.mode,
                     listener.searchTerm))
    /\ lastOp' = [op |-> "onSnapshot", mode |-> listener.mode,
                  search |-> NormalizedOf(listener.searchTerm)]
    /\ UNCHANGED calls
    /\ ListenerFrame

(* ------------------------ the offset-based table ----------------------- *)
MaxTableEvents == 4
TablePages == {1, 2, 3}
TableSearches == {<<>>, <<"a">>}
TableFrame == UNCHANGED <<cache, now, deleted, pendingLast, last, prev, lastOp,
                          calls, ticks, walkPos, dCurrent, dLast, dTotal,
                          dResult, resolves, listener, cursorTable>>
\* fetchLeaderboardData(page, rankMode, search, silent) called from a handler
\* of the current render, up to its await.
FetchIssued(tb, page, rankMode, search, silent, closurePage) ==
    [tb EXCEPT !.fetching = @ \cup {[page |-> page, rankMode |-> rankMode,
                                     search |-> search, silent |-> silent,
                                     closurePage |-> closurePage]},
               !.events = @ + 1]
\* The effect with dependencies [mode, searchTerm] runs again after a render
\* in which one of them changed: the new subscription holds the handler of
\* that render.
Resubscribed(tb, old) ==
    IF tb.mode # old.mode \/ tb.searchTerm # old.searchTerm
    THEN [tb EXCEPT !.sub = [currentPage |-> tb.currentPage, mode |-> tb.mode,
                             searchTerm |-> tb.searchTerm,
                             isInitialSnapshot |-> TRUE, snapshots |-> 0,
                             invoked |-> 0]]
    ELSE tb

handlePageChange ==
    /\ offsetTable.events < MaxTableEvents
    /\ \E page \in TablePages :
          offsetTable' =
              FetchIssued([offsetTable EXCEPT !.currentPage = page], page,
                          offsetTable.mode, offsetTable.searchTerm, FALSE,
                          offsetTable.currentPage)
    /\ TableFrame

handleModeToggle ==
    /\ offsetTable.events < MaxTableEvents
    /\ LET newMode == IF offsetTable.mode = Disinformer THEN Netizen
                      ELSE Disinformer
       IN  offsetTable' =
              Resubscribed(
                  FetchIssued([offsetTable EXCEPT !.mode = newMode,
                                                  !.currentPage = 1],
                              1, newMode, offsetTable.searchTerm, FALSE,
                              offsetTable.currentPage),
                  offsetTable)
    /\ TableFrame

handleSearchSubmit ==
    /\ offsetTable.events < MaxTableEvents
    /\ \E term \in TableSearches :
          offsetTable' =
              Resubscribed(
                  FetchIssued([offsetTable EXCEPT !.searchTerm = term,
                                                  !.currentPage = 1],
                              1, offsetTable.mode, term, FALSE,
                              offsetTable.currentPage),
                  offsetTable)
    /\ TableFrame

\* Slip: no snapshot is taken for the initial one.
SkipsSnapshot_Never(sub) == FALSE

\* if (isInitialSnapshot) { isInitialSnapshot = false; return; }
SkipsSnapshot(sub) == sub.isInitialSnapshot

\* The snapshot callback of subscribeToLeaderboardChanges: the first snapshot
\* of a subscription is skipped, every later one calls the
\* handleLeaderboardChange the subscription was created with.  snapshots
\* counts the snapshots the subscription received, invoked its calls of
\* onLeaderboardChange.
subscribeToLeaderboardChanges ==
    /\ offsetTable.events < MaxTableEvents
    /\ offsetTable' =
          IF SkipsSnapshot(offsetTable.sub)
          THEN [offsetTable EXCEPT !.sub.isInitialSnapshot = FALSE,
                                   !.sub.snapshots = @ + 1,
                                   !.events = @ + 1]
          ELSE FetchIssued([offsetTable EXCEPT
                               !.sub.snapshots = @ + 1,
                               !.sub.invoked = @ + 1,
                               !.notice = [refetched |-> offsetTable.sub.currentPage,
                                           displayed |-> offsetTable.currentPage]],
                           offsetTable.sub.currentPage, offsetTable.sub.mode,
                           offsetTable.sub.searchTerm, TRUE,
                           offsetTable.sub.currentPage)
    /\ TableFrame

\* fetchLeaderboardAction resolves: setData, and setCurrentPage when the
\* server's page differs from the currentPage the caller closed over.
FetchResolved(f, result) ==
    offsetTable' = [offsetTable EXCEPT
                       !.data = result,
                       !.currentPage = IF result.currentPage # f.closurePage
                                       THEN result.currentPage ELSE @,
                       !.fetching = @ \ {f}]
fetchLeaderboardData ==
    /\ \E f \in offsetTable.fetching :
          FetchResolved(f, getPaginatedLeaderboardOffset(deleted, f.page,
                                                         f.rankMode, f.search))
    /\ TableFrame

(* ----------------- two calls interleaved at their awaits ---------------- *)
ConcRequests ==
    {[page |-> p, mode |-> Disinformer, search |-> <<>>] : p \in {1, 5, 6}}
ResolveFrame == UNCHANGED <<now, deleted, last, prev, lastOp, calls, ticks,
                            walkPos, dCurrent, dLast, dTotal, dResult,
                            offsetTable, listener, cursorTable>>
BaseOf(rs) ==
    buildBaseQueryWithoutPagination(rs.req.mode, NormalizedOf(rs.req.search),
                                    deleted)

\* From the return of prefetchCursorsAround to the next await: the last-page
\* query is issued, the anchor of the previous page is looked up in the
\* cache c1, and the anchor document read or the page query is issued.
LookedUp(i, rs, c1, r) ==
    /\ cache' = c1
    /\ pendingLast' = IF r.issuedLast
                      THEN pendingLast \cup
                              {[mode |-> rs.req.mode,
                                search |-> NormalizedOf(rs.req.search),
                                totalPages |-> rs.totalPages, fails |-> FALSE]}
                      ELSE pendingLast
    /\ resolves' = [resolves EXCEPT ![i] =
                        [rs EXCEPT !.pc = IF r.path \in {"anchor", "stale"}
                                          THEN "pageDoc" ELSE "pageDocs",
                                   !.path = r.path, !.result = r.result]]
Lookup(i, rs, c1) ==
    LookedUp(i, rs, c1,
             FetchPage([cache |-> c1, ops |-> 0, scan |-> NoScan], now, deleted,
                       BaseOf(rs), rs.totalPages, rs.pageNumber, rs.req.mode,
                       NormalizedOf(rs.req.search), {}))

\* getPaginatedLeaderboard is called: it runs to `await getTotalCount`.
ResolveStart(i) ==
    /\ resolves[i].pc = "idle"
    /\ \E req \in ConcRequests :
          resolves' = [resolves EXCEPT ![i] =
                          [IdleResolve EXCEPT !.pc = "count", !.req = req]]
    /\ UNCHANGED <<cache, pendingLast>>
    /\ ResolveFrame

\* The scan of a pass that found missing pages is in flight.
ScanIssued(i, rs, f, rng, missingPages) ==
    /\ resolves' = [resolves EXCEPT ![i] =
                        [rs EXCEPT !.pc = IF f.ops = 2 THEN "pfDoc" ELSE "pfDocs",
                                   !.f = f, !.startPage = rng.startPage,
                                   !.endPage = rng.endPage,
                                   !.missing = missingPages]]
    /\ UNCHANGED <<cache, pendingLast>>

\* The count arrives: page validation and prefetchCursorsAround up to its
\* first await, or to its return when it has nothing to fetch.
Counted(i, rs, s) ==
    IF isPrefetchedAround(cache, now, rs.req.mode, rs.pageNumber, s)
    THEN Lookup(i, rs, cache)
    ELSE
    LET lastAccessedPage == getLastAccessedPage(cache, now, rs.req.mode, s)
        direction == detectNavigationDirection(rs.pageNumber, lastAccessedPage,
                                               rs.totalPages)
        rng == PrefetchRange(direction, rs.pageNumber, rs.totalPages)
        missingPages == MissingPages(cache, now, rs.req.mode, s, rng.startPage,
                                     rng.endPage)
    IN  IF missingPages = {}
        THEN Lookup(i, rs, markPrefetchedAround(cache, now, rs.req.mode,
                                                rs.pageNumber, s))
        ELSE ScanIssued(i, rs,
                        PrefetchScan(cache, now, deleted, BaseOf(rs), rng,
                                     rs.req.mode, s, {}),
                        rng, missingPages)
ResolveCounted(i) ==
    /\ resolves[i].pc = "count"
    /\ LET rs0 == resolves[i]
           totalPages == CeilDiv(Len(BaseOf(rs0)), ITEMS_PER_PAGE)
       IN  Counted(i, [rs0 EXCEPT !.totalPages = totalPages,
                                  !.pageNumber = ValidatePage(rs0.req.page,
                                                              totalPages)],
                   NormalizedOf(rs0.req.search))
    /\ ResolveFrame

\* The anchor document of the scan arrives and the scan query is issued.
ResolveScanDoc(i) ==
    /\ resolves[i].pc = "pfDoc"
    /\ resolves' = [resolves EXCEPT ![i].pc = "pfDocs"]
    /\ UNCHANGED <<cache, pendingLast>>
    /\ ResolveFrame

\* The scan arrives: the caching loop with the missing set computed before
\* the await, then the lookup of the page's anchor.
ResolveScanned(i) ==
    /\ resolves[i].pc = "pfDocs"
    /\ LET rs == resolves[i]
       IN  Lookup(i, rs,
                  CachePrefetched(cache, now, rs.f, rs.startPage, rs.endPage,
                                  rs.missing, rs.pageNumber, rs.req.mode,
                                  NormalizedOf(rs.req.search)).cache)
    /\ ResolveFrame

\* The anchor document of the page arrives and the page query is issued.
ResolvePageDoc(i) ==
    /\ resolves[i].pc = "pageDoc"
    /\ resolves' = [resolves EXCEPT ![i].pc = "pageDocs"]
    /\ UNCHANGED <<cache, pendingLast>>
    /\ ResolveFrame

\* The page arrives: slice, recordPageAccess, return.
ResolvePaged(i) ==
    /\ resolves[i].pc = "pageDocs"
    /\ cache' = recordPageAccess(cache, now, resolves[i].req.mode,
                                 resolves[i].pageNumber,
                                 NormalizedOf(resolves[i].req.search))
    /\ resolves' = [resolves EXCEPT ![i].pc = "done"]
    /\ UNCHANGED pendingLast
    /\ ResolveFrame

\* The getDocs of an un-awaited prefetchLastPageCursor resolves.
LastPageArrives ==
    /\ \E p \in pendingLast :
          /\ cache' = IF p.fails THEN cache
                       ELSE LastPageFetchDone(cache, now, deleted, p.totalPages,
                                              p.mode, p.search)
          /\ pendingLast' = pendingLast \ {p}
          /\ lastOp' = [op |-> "prefetchLastPageCursor", mode |-> p.mode,
                        search |-> p.search]
    /\ UNCHANGED <<now, deleted, last, prev, calls, ticks, walkPos,
                   dCurrent, dLast, dTotal, dResult,
                   resolves, offsetTable, listener, cursorTable>>

\* Time passes.
Tick ==
    /\ ticks < MaxTicks
    /\ \E d \in TickSteps : now' = now + d
    /\ ticks' = ticks + 1
    /\ lastOp' = NoOp
    /\ UNCHANGED <<cache, deleted, pendingLast, last, prev, calls, walkPos,
                   dCurrent, dLast, dTotal, dResult,
                   resolves, offsetTable, listener, cursorTable>>

Next == Call \/ LastPageArrives \/ Tick
Spec == Init /\ [][Next]_vars

NextCache == OpSetCursor \/ OpMarkPrefetchedAround \/ OpRecordPageAccess
             \/ OpInvalidate \/ Tick
SpecCache == Init /\ [][NextCache]_vars

NextIso == OpSetCursor \/ OpMarkPrefetchedAround \/ OpRecordPageAccess
           \/ OpInvalidate \/ Call \/ LastPageArrives
SpecIso == Init /\ [][NextIso]_vars

NextDetect == Detect
SpecDetect == InitDetect /\ [][NextDetect]_vars

NextWalk == WalkStep \/ LastPageArrives
SpecWalk == Init /\ [][NextWalk]_vars

NextFail == CallFailing \/ LastPageArrives
SpecFail == Init /\ [][NextFail]_vars

NextConc ==
    \/ \E i \in ResolveIds : ResolveStart(i)
    \/ \E i \in ResolveIds : ResolveCounted(i)
    \/ \E i \in ResolveIds : ResolveScanDoc(i)
    \/ \E i \in ResolveIds : ResolveScanned(i)
    \/ \E i \in ResolveIds : ResolvePageDoc(i)
    \/ \E i \in ResolveIds : ResolvePaged(i)
    \/ LastPageArrives
SpecConc == Init /\ [][NextConc]_vars

NextListen == ListenerSubscribe \/ ListenerSnapshot \/ DeletePlayer
SpecListen == Init /\ [][NextListen]_vars

NextOffset == handlePageChange \/ handleModeToggle \/ handleSearchSubmit
              \/ subscribeToLeaderboardChanges \/ fetchLeaderboardData
SpecOffset == Init /\ [][NextOffset]_vars

NextStale == CallAfterChange \/ LastPageArrives \/ DeletePlayer
SpecStale == Init /\ [][NextStale]_vars

(* ------------------------- notions used by the claims ------------------ *)
Contexts == RankingCriteria \X NormSearches
\* The from-scratch listing of a context and its page p.
Listing(mode, s) == buildBaseQueryWithoutPagination(mode, s, deleted)
ListingPage(mode, s, p) ==
    LET all == Listing(mode, s)
    IN  IF (p - 1) * ITEMS_PER_PAGE >= Len(all) THEN <<>>
        ELSE SubSeq(all, (p - 1) * ITEMS_PER_PAGE + 1,
                    Min(p * ITEMS_PER_PAGE, Len(all)))
LastRecordOfPage(mode, s, p) ==
    LET pg == ListingPage(mode, s, p)
    IN  IF pg = <<>> THEN Null ELSE pg[Len(pg)]
LastCtxKey == getKey(last.req.mode, NormalizedOf(last.req.search))
\* The entry of the last call's context was valid when the call ran.
LastEntryLive ==
    /\ LastCtxKey \in DOMAIN cache
    /\ last.at - cache[LastCtxKey].timestamp <= CURSOR_CACHE_TTL

\* C1: on unchanged data and an unexpired entry, a call for a page p in
\* 1..totalPages returns exactly the records of page p of the from-scratch
\* listing, whatever calls came before.
C1_PageEqualsListing ==
    ( /\ last.done /\ deleted = {} /\ LastEntryLive
      /\ last.req.page >= 1 /\ last.req.page <= last.result.totalPages )
    => last.result.players =
          ListingPage(last.req.mode, NormalizedOf(last.req.search), last.req.page)

\* C2: every anchor stored for a page p of a context is the id of the last
\* record of page p in canonical order.
C2_AnchorsCorrect ==
    deleted = {} =>
    \A ctx \in Contexts :
        LET key == getKey(ctx[1], ctx[2])
        IN  key \in DOMAIN cache =>
            \A p \in DOMAIN cache[key].cursors :
                cache[key].cursors[p] = LastRecordOfPage(ctx[1], ctx[2], p)

\* C3: after a write that found an expired entry, the entry is a fresh one
\* stamped with the current time that holds only the value just written, and
\* the matching read returns that value.
WriteOps == {"setCursor", "markPrefetchedAround", "recordPageAccess"}
FreshAfter(op) ==
    [NewEntry(now) EXCEPT
        !.cursors = IF op.op = "setCursor" THEN (op.page :> op.docId) ELSE <<>>,
        !.prefetchedAroundPages =
            IF op.op = "markPrefetchedAround" THEN {op.page} ELSE {},
        !.lastAccessedPage = IF op.op = "recordPageAccess" THEN op.page ELSE Null]
C3_ExpiredEntryReplaced ==
    (lastOp.op \in WriteOps /\ lastOp.wasExpired) =>
        /\ cache[getKey(lastOp.mode, lastOp.search)] = FreshAfter(lastOp)
        /\ lastOp.op = "setCursor" =>
              getCursor(cache, now, lastOp.mode, lastOp.page, lastOp.search)
                  = lastOp.docId
        /\ lastOp.op = "markPrefetchedAround" =>
              isPrefetchedAround(cache, now, lastOp.mode, lastOp.page, lastOp.search)
        /\ lastOp.op = "recordPageAccess" =>
              getLastAccessedPage(cache, now, lastOp.mode, lastOp.search)
                  = lastOp.page

\* The results of the read operations of one context.
ReadPages == 0..11
PlainReads(c, t, mode, s) ==
    [cursor |-> [p \in ReadPages |-> getCursor(c, t, mode, p, s)],
     prefetched |-> [p \in ReadPages |-> isPrefetchedAround(c, t, mode, p, s)],
     lastAccessed |-> getLastAccessedPage(c, t, mode, s)]
AllReads(c, t, mode, s) ==
    [plain |-> PlainReads(c, t, mode, s), stats |-> getStats(c, t, mode, s)]
\* An entry of age exactly TTL answers every read from what it stores.
ValidAtTTL(mode, s) ==
    LET e == cache[getKey(mode, s)]
    IN  now - e.timestamp = CURSOR_CACHE_TTL =>
          /\ \A p \in DOMAIN e.cursors :
                getCursor(cache, now, mode, p, s) = e.cursors[p]
          /\ \A p \in e.prefetchedAroundPages :
                isPrefetchedAround(cache, now, mode, p, s)
          /\ getLastAccessedPage(cache, now, mode, s) = e.lastAccessedPage
          /\ ~getStats(cache, now, mode, s).isExpired

\* C4 as stated: an entry older than TTL answers every read, getStats
\* included, exactly as a context that was never written; an entry of age
\* TTL is still valid.
C4_ExpiredSameAsAbsent ==
    \A ctx \in Contexts :
        getKey(ctx[1], ctx[2]) \in DOMAIN cache =>
          /\ now - cache[getKey(ctx[1], ctx[2])].timestamp > CURSOR_CACHE_TTL =>
                AllReads(cache, now, ctx[1], ctx[2])
                    = AllReads(<<>>, now, ctx[1], ctx[2])
          /\ ValidAtTTL(ctx[1], ctx[2])

\* C4 amended: an entry older than TTL answers getCursor, isPrefetchedAround
\* and getLastAccessedPage as an absent context and getStats reports
\* isExpired for it, while totalCursors and cacheAge are those of the entry;
\* an entry of age TTL is still valid.
C4_ExpiredReads ==
    \A ctx \in Contexts :
        LET key == getKey(ctx[1], ctx[2])
        IN  key \in DOMAIN cache =>
          /\ now - cache[key].timestamp > CURSOR_CACHE_TTL =>
                /\ PlainReads(cache, now, ctx[1], ctx[2])
                      = PlainReads(<<>>, now, ctx[1], ctx[2])
                /\ getStats(cache, now, ctx[1], ctx[2]) =
                      [totalCursors |-> Cardinality(DOMAIN cache[key].cursors),
                       cacheAge |-> now - cache[key].timestamp,
                       isExpired |-> TRUE]
          /\ ValidAtTTL(ctx[1], ctx[2])
C4_Witness ==
    \E ctx \in Contexts :
        LET key == getKey(ctx[1], ctx[2])
        IN  /\ key \in DOMAIN cache
            /\ now - cache[key].timestamp = CURSOR_CACHE_TTL + 1
            /\ DOMAIN cache[key].cursors # {}
            /\ cache[key].prefetchedAroundPages # {}
            /\ cache[key].lastAccessedPage # Null

\* C5: an operation on one context leaves the results of all reads of every
\* other context unchanged.
C5_ContextIsolation ==
    [][\A ctx \in Contexts :
          ctx # <<lastOp'.mode, lastOp'.search>> =>
              AllReads(cache', now', ctx[1], ctx[2])
                  = AllReads(cache, now, ctx[1], ctx[2])]_vars
C5_Witness ==
    /\ lastOp.op = "getPaginatedLeaderboard"
    /\ \E ctx \in Contexts :
          /\ ctx # <<lastOp.mode, lastOp.search>>
          /\ ctx[1] = lastOp.mode
          /\ getStats(cache, now, ctx[1], ctx[2]).totalCursors > 0
    /\ \E ctx \in Contexts :
          /\ ctx[1] # lastOp.mode
          /\ getLastAccessedPage(cache, now, ctx[1], ctx[2]) # Null

\* C6: a request for a page outside 1..totalPages resolves page 1.
C6_OutOfRangeIsPageOne ==
    (last.done /\ (last.req.page < 1 \/ last.req.page > last.result.totalPages))
    => /\ last.result.currentPage = 1
       /\ last.result.players =
             ListingPage(last.req.mode, NormalizedOf(last.req.search), 1)
C6_Witness ==
    /\ last.done /\ prev.done
    /\ last.req.page > last.result.totalPages
    /\ last.result.totalPages > 1
    /\ last.lastBefore > 1
    /\ Len(last.result.players) = ITEMS_PER_PAGE

\* C7: detectNavigationDirection agrees with the ordered rules.
DirectionRules(currentPage, lastAccessedPage, totalPages) ==
    IF currentPage = 1 THEN "JumpToStart"
    ELSE IF currentPage = totalPages THEN "JumpToEnd"
    ELSE IF lastAccessedPage = Null THEN "Forward"
    ELSE IF currentPage > lastAccessedPage THEN "Forward"
    ELSE IF currentPage < lastAccessedPage THEN "Backward"
    ELSE "Forward"
C7_DirectionRules ==
    dResult # "none" => dResult = DirectionRules(dCurrent, dLast, dTotal)
C7_Witness == dResult = "Backward" /\ dLast < dTotal

\* The two most recent calls were made with the same (page, mode, search).
SameRequestTwice ==
    /\ prev.done /\ last.done /\ last.req = prev.req
    /\ prev.del = {} /\ last.del = {}
SecondLikeFirst ==
    /\ last.result = prev.result
    /\ last.ops <= prev.ops
\* The context entry was valid at the first call and expired at the second.
ExpiredBetween ==
    /\ prev.at - cache[LastCtxKey].timestamp <= CURSOR_CACHE_TTL
    /\ last.at - cache[LastCtxKey].timestamp > CURSOR_CACHE_TTL

\* C8 as stated: the second of two successive identical calls returns the
\* same players and pagination metadata and issues no more external fetches
\* than the first.
C8_Idempotent == SameRequestTwice => SecondLikeFirst

\* C8 amended: the same, provided the context's cache entry does not expire
\* between the two calls.
C8_IdempotentWithinTTL ==
    (SameRequestTwice /\ ~ExpiredBetween) => SecondLikeFirst
C8_Witness ==
    /\ SameRequestTwice /\ ~ExpiredBetween
    /\ last.path = "anchor" /\ prev.path = "anchor"
    /\ last.ops < prev.ops

\* C9: in a sequential walk from a cold cache every step from the second
\* onward finds the anchor of the previous page cached and fetches at most
\* pageSize + 1 records after it.
C9_WalkUsesAnchors ==
    (last.done /\ last.req.page >= 2) =>
        /\ last.path = "anchor"
        /\ last.limit <= ITEMS_PER_PAGE + 1

\* C10: when the anchor cached for page p-1 names a deleted document, the
\* call still completes, fetches p*pageSize+1 records from the beginning and
\* returns the records at offsets (p-1)*pageSize .. p*pageSize-1 of them.
C10_StaleAnchorFallback ==
    (last.done /\ last.path = "stale") =>
        LET pg == last.result.currentPage
            fetched == Take(buildBaseQueryWithoutPagination(
                                last.req.mode, NormalizedOf(last.req.search),
                                last.del),
                            pg * ITEMS_PER_PAGE + 1)
        IN  /\ last.limit = pg * ITEMS_PER_PAGE + 1
            /\ last.result.players =
                  [k \in 1..(Min(pg * ITEMS_PER_PAGE, Len(fetched))
                              - (pg - 1) * ITEMS_PER_PAGE) |->
                      fetched[(pg - 1) * ITEMS_PER_PAGE + k]]
C10_Witness ==
    /\ last.done /\ last.path = "stale"
    /\ last.anchor \in last.del
    /\ last.result.currentPage > 1
    /\ Len(last.result.players) = ITEMS_PER_PAGE

\* The last step was a getPaginatedLeaderboard call, which returned or threw.
CallJustEnded ==
    lastOp.op = "getPaginatedLeaderboard" /\ (last.done \/ last.rejected)
PrefetchPoints == {"backwardAnchorDoc", "backwardScan", "forwardAnchorDoc",
                   "forwardScan", "lastPageScan"}
\* The records that follow the document id in the listing of a context.
RecordsAfter(mode, s, id, n) ==
    StartAfterLimit(mode, Listing(mode, s), id, n)

\* C11: a call during which only fetches of prefetchCursorsAround or
\* prefetchLastPageCursor fail does not throw: it returns the validated page
\* number with the records its own lookup and page fetch give, which are
\* the page of the listing when it fetched from the beginning and the
\* pageSize records after the anchor it found otherwise.
C11_PrefetchNonFatal ==
    (CallJustEnded /\ last.fail # {} /\ last.fail \subseteq PrefetchPoints) =>
        LET s == NormalizedOf(last.req.search)
            totalPages == CeilDiv(Len(Listing(last.req.mode, s)), ITEMS_PER_PAGE)
            pg == ValidatePage(last.req.page, totalPages)
        IN  /\ last.done /\ ~last.rejected
            /\ last.result.currentPage = pg
            /\ last.result.totalPages = totalPages
            /\ last.result.players =
                  IF last.path = "anchor"
                  THEN RecordsAfter(last.req.mode, s, last.anchor, ITEMS_PER_PAGE)
                  ELSE ListingPage(last.req.mode, s, pg)
C11_Witness ==
    /\ CallJustEnded /\ last.done
    /\ last.fail = {"backwardScan", "forwardScan"}
    /\ last.scan.ran /\ last.scan.threw
    /\ last.result.currentPage > 1
    /\ last.result.currentPage = last.result.totalPages
    /\ getCursor(cache, now, last.req.mode, last.result.currentPage,
                 NormalizedOf(last.req.search)) # Null
    /\ last.result.players # <<>>

\* C12: a call whose count query or page query fails throws, returns no
\* page, and leaves the lastAccessedPage of its context as it was.
C12_FatalNoPartialResult ==
    (CallJustEnded /\ last.fail \cap {"count", "pageFetch"} # {}) =>
        /\ last.rejected /\ ~last.done
        /\ last.result = NoResult
        /\ getLastAccessedPage(cache, now, last.req.mode,
                               NormalizedOf(last.req.search)) = last.lastBefore
C12_Witness ==
    /\ CallJustEnded /\ last.rejected
    /\ last.fail = {"pageFetch"}
    /\ last.scan.ran /\ ~last.scan.threw
    /\ last.lastBefore # Null
    /\ last.lastBefore # last.req.page

\* What two calls x then y made one after the other from a cold cache
\* return and leave as anchors; early: the last-page query of the first
\* arrives before the second starts.
SeqEnd(x, r1, r2) ==
    [first |-> r1.result.players, second |-> r2.result.players,
     anchors |->
        LastPageFetchDone(r2.cache, now, {}, r2.result.totalPages, x.mode,
                          NormalizedOf(x.search))
            [getKey(x.mode, NormalizedOf(x.search))].cursors]
SeqSecond(x, y, r1, early) ==
    SeqEnd(x, r1,
           getPaginatedLeaderboard(
               IF early /\ r1.issuedLast
               THEN LastPageFetchDone(r1.cache, now, {}, r1.result.totalPages,
                                      x.mode, NormalizedOf(x.search))
               ELSE r1.cache,
               now, {}, y.page, y.mode, y.search, {}))
SeqRun(x, y, early) ==
    SeqSecond(x, y,
              getPaginatedLeaderboard(<<>>, now, {}, x.page, x.mode, x.search, {}),
              early)
BothResolved ==
    /\ \A i \in ResolveIds : resolves[i].pc = "done"
    /\ pendingLast = {}
ConcAnchors ==
    cache[getKey(resolves[1].req.mode, NormalizedOf(resolves[1].req.search))].cursors

\* C13: whatever the interleaving of two calls on one context, the records
\* each returns and the final anchor map are those of the two calls made one
\* after the other in one of the two orders.
C13_InterleavingSerializable ==
    BothResolved =>
        \E early \in BOOLEAN :
            \/ [first |-> resolves[1].result.players,
                second |-> resolves[2].result.players,
                anchors |-> ConcAnchors]
                  = SeqRun(resolves[1].req, resolves[2].req, early)
            \/ [first |-> resolves[2].result.players,
                second |-> resolves[1].result.players,
                anchors |-> ConcAnchors]
                  = SeqRun(resolves[2].req, resolves[1].req, early)

\* C14: after a call that returned at least one record of page p, the cache
\* holds an anchor for page p of the context and it is the id of the last
\* record returned.
C14_AnchorOfReturnedPage ==
    (CallJustEnded /\ last.done /\ last.result.players # <<>>) =>
        /\ LastCtxKey \in DOMAIN cache
        /\ last.result.currentPage \in DOMAIN cache[LastCtxKey].cursors
        /\ cache[LastCtxKey].cursors[last.result.currentPage]
              = last.result.players[Len(last.result.players)]

\* C15: a call that resolves page 1 of a context in which another page was
\* visited last leaves no prefetched marker and no anchor of that context
\* from before the call: what the entry holds afterwards is what a page-1
\* resolve learns by itself.
C15_PageOneInvalidates ==
    [][LET key == getKey(last'.req.mode, NormalizedOf(last'.req.search))
       IN  ( /\ calls' = calls + 1
             /\ lastOp'.op = "getPaginatedLeaderboard"
             /\ last'.done /\ last'.result.currentPage = 1
             /\ key \in DOMAIN cache
             /\ cache[key].lastAccessedPage \notin {Null, 1} )
           => /\ cache'[key].prefetchedAroundPages \subseteq {1}
              /\ DOMAIN cache'[key].cursors \subseteq 1..(1 + PREFETCH_WINDOW)]_vars

\* C16: a call reports totalPages = max(1, ceil(totalCount / pageSize)).
C16_TotalPagesAtLeastOne ==
    last.done =>
        last.result.totalPages =
            Max(1, CeilDiv(getTotalCount(last.req.mode,
                                         NormalizedOf(last.req.search), last.del),
                           ITEMS_PER_PAGE))

\* C17: setCursor creates the entry stamped with the current time when the
\* context has none and overwrites the anchor in place otherwise; the
\* getCursor issued right after it returns the id written, and getCursor of
\* a page never set returns null.
C17_SetGetRoundTrip ==
    lastOp.op = "setCursor" =>
        LET key == getKey(lastOp.mode, lastOp.search)
        IN  /\ cache[key] =
                  IF HasEntry(lastOp.before, key)
                  THEN [lastOp.before[key] EXCEPT
                           !.cursors = (lastOp.page :> lastOp.docId) @@ @]
                  ELSE [NewEntry(now) EXCEPT
                           !.cursors = (lastOp.page :> lastOp.docId)]
            /\ getCursor(cache, now, lastOp.mode, lastOp.page, lastOp.search)
                  = lastOp.docId
            /\ \A q \in ReadPages \ DOMAIN cache[key].cursors :
                  getCursor(cache, now, lastOp.mode, q, lastOp.search) = Null

\* C20: when the prefetch pass of a call took the backward path for the
\* range [start, end] from a correct anchor of page end, every anchor it
\* stored, for a page q in start..end-1, is the id of the last record of
\* page q in canonical order.
C20_BackwardScanAnchors ==
    ( /\ CallJustEnded /\ last.done /\ deleted = {}
      /\ last.scan.ran /\ ~last.scan.threw /\ last.scan.backward
      /\ cache[LastCtxKey].cursors[last.scan.endPage]
            = LastRecordOfPage(last.req.mode, NormalizedOf(last.req.search),
                               last.scan.endPage) )
    => \A q \in last.scan.missing \cap
                 (last.scan.startPage..(last.scan.endPage - 1)) :
           q \in DOMAIN cache[LastCtxKey].cursors =>
               cache[LastCtxKey].cursors[q]
                   = LastRecordOfPage(last.req.mode,
                                      NormalizedOf(last.req.search), q)

\* C18: the silent re-fetch a notification triggers is for the page the
\* table displays when the notification arrives.
C18_RefetchesDisplayedPage ==
    offsetTable.notice.refetched # Null =>
        offsetTable.notice.refetched = offsetTable.notice.displayed

\* C19: a listener created with a page number that is not a page of the
\* snapshot (above its page count or below 1) delivers the last page:
\* currentPage = totalPages and the records of that page.
C19_ListenerDeliversLastPage ==
    (listener.delivered /\ listener.del = deleted) =>
        LET s == NormalizedOf(listener.searchTerm)
            totalPages == Max(1, CeilDiv(Len(Listing(listener.mode, s)),
                                         ITEMS_PER_PAGE))
        IN  (listener.pageNumber > totalPages \/ listener.pageNumber < 1) =>
                /\ listener.update.currentPage = totalPages
                /\ listener.update.players =
                      ListingPage(listener.mode, s, totalPages)

\* C21: when the prefetch pass of a call scanned forward for the range
\* [start, end] with start > 1, either from after a correct cached anchor of
\* page start-1 or from the beginning of the listing, every anchor it stored,
\* for a page q of the range, is the id of the last record of page q in
\* canonical order.
C21_ForwardScanAnchors ==
    ( /\ CallJustEnded /\ last.done /\ deleted = {}
      /\ last.scan.ran /\ ~last.scan.threw /\ ~last.scan.backward
      /\ last.scan.startPage > 1
      /\ \/ last.scan.fetchedFromStart
         \/ /\ (last.scan.startPage - 1) \in DOMAIN cache[LastCtxKey].cursors
            /\ cache[LastCtxKey].cursors[last.scan.startPage - 1]
                  = LastRecordOfPage(last.req.mode, NormalizedOf(last.req.search),
                                     last.scan.startPage - 1) )
    => \A q \in last.scan.missing :
           q \in DOMAIN cache[LastCtxKey].cursors =>
               cache[LastCtxKey].cursors[q]
                   = LastRecordOfPage(last.req.mode,
                                      NormalizedOf(last.req.search), q)

(* --------------- the windowed service (leaderboard-service.ts) ---------- *)
\* The scan of the windowed prefetchCursorsAround for [startPage, endPage]:
\* after the cached anchor of startPage - 1 when there is one, from the
\* beginning of the listing otherwise.
WindowScan(c, t, del, base, startPage, endPage, mode, s, fail) ==
    LET docsToFetch == (endPage - startPage + 1) * ITEMS_PER_PAGE
        beforeStartCursor == getCursor(c, t, mode, startPage - 1, s)
        Threw == [allDocs |-> <<>>, fetchedFromStart |-> FALSE, threw |-> TRUE]
    IN  IF startPage > 1 /\ beforeStartCursor # Null
        THEN IF "forwardAnchorDoc" \in fail THEN Threw
             ELSE IF ~DocExists(beforeStartCursor, del) THEN Threw
             ELSE IF "forwardScan" \in fail THEN Threw
             ELSE [allDocs |-> StartAfterLimit(mode, base, beforeStartCursor,
                                               docsToFetch + 1),
                   fetchedFromStart |-> FALSE, threw |-> FALSE]
        ELSE IF "forwardScan" \in fail THEN Threw
             ELSE [allDocs |-> addPaginationLimitToQuery(base, docsToFetch + 1),
                   fetchedFromStart |-> TRUE, threw |-> FALSE]

\* The caching loop of the windowed pass over the fetched documents f, the
\* anchor of the last page, then markPrefetchedAround.  Reading
\* allDocs[-1].id on an empty listing throws into the catch of the pass.
WindowCached(c, t, f, startPage, endPage, totalPages, currentPage, mode, s) ==
    LET docsToFetch == (endPage - startPage + 1) * ITEMS_PER_PAGE
        PageAt == [i \in 0..(Len(f.allDocs) - 1) |->
                      startPage + (i \div ITEMS_PER_PAGE)]
        hits == {i \in 0..(Len(f.allDocs) - 1) :
                    (i + 1) % ITEMS_PER_PAGE = 0 /\ PageAt[i] <= endPage}
        looped == SetCursorsAt(c, t, f.allDocs, hits, PageAt, mode, s)
        lastToo == endPage = totalPages /\ Len(f.allDocs) >= docsToFetch
        threwLater == lastToo /\ docsToFetch = 0
        scan == [ran |-> TRUE, threw |-> f.threw \/ threwLater,
                 fetchedFromStart |-> f.fetchedFromStart,
                 startPage |-> startPage, endPage |-> endPage]
    IN  IF f.threw THEN [cache |-> c, scan |-> scan]
        ELSE IF threwLater THEN [cache |-> looped, scan |-> scan]
        ELSE IF lastToo
        THEN [cache |-> markPrefetchedAround(
                           setCursor(looped, t, mode, totalPages,
                                     f.allDocs[docsToFetch], s),
                           t, mode, currentPage, s),
              scan |-> scan]
        ELSE [cache |-> markPrefetchedAround(looped, t, mode, currentPage, s),
              scan |-> scan]

\* The windowed pass: pages currentPage - 3 .. currentPage + 3.
prefetchCursorsAroundWindow(c, t, del, base, totalPages, currentPage, mode, s, fail) ==
    IF isPrefetchedAround(c, t, mode, currentPage, s)
    THEN [cache |-> c, scan |-> NoScan]
    ELSE WindowCached(c, t,
                      WindowScan(c, t, del, base,
                                 Max(1, currentPage - PREFETCH_WINDOW),
                                 Min(totalPages, currentPage + PREFETCH_WINDOW),
                                 mode, s, fail),
                      Max(1, currentPage - PREFETCH_WINDOW),
                      Min(totalPages, currentPage + PREFETCH_WINDOW),
                      totalPages, currentPage, mode, s)

\* Step 7: the cache is read again, after the page query was awaited.
WindowStartIndex(c, t, mode, pageNumber, s) ==
    IF pageNumber > 1 /\ getCursor(c, t, mode, pageNumber - 1, s) = Null
    THEN (pageNumber - 1) * ITEMS_PER_PAGE ELSE 0

\* Step 8: the last returned player becomes the anchor of the page.
WindowStored(c, t, players, mode, pageNumber, s) ==
    IF Len(players) > 0
    THEN setCursor(c, t, mode, pageNumber, players[Len(players)], s)
    ELSE c

\* Steps 5 to 9 of the windowed call on the outcome pf of its prefetch pass;
\* c7 is the cache that step 7 reads.  path "fallback" is the catch around
\* the read of the anchor document: getDoc rejected, or startAfter refused
\* the snapshot of a document that does not exist.
WindowPage(pf, c7, t, del, baseQuery, totalPages, pageNumber, mode, s, fail) ==
    LET cursorDocId == getCursor(pf.cache, t, mode, pageNumber - 1, s)
        path == IF pageNumber > 1
                THEN IF cursorDocId # Null
                     THEN IF "pageAnchorDoc" \in fail
                             \/ ~DocExists(cursorDocId, del)
                          THEN "fallback" ELSE "anchor"
                     ELSE "miss"
                ELSE "first"
        limit == IF path \in {"fallback", "miss"}
                 THEN pageNumber * ITEMS_PER_PAGE + 1 ELSE ITEMS_PER_PAGE + 1
        allDocs == IF path = "anchor"
                   THEN StartAfterLimit(mode, baseQuery, cursorDocId, limit)
                   ELSE addPaginationLimitToQuery(baseQuery, limit)
        startIndex == WindowStartIndex(c7, t, mode, pageNumber, s)
        players == Slice(allDocs, startIndex, startIndex + ITEMS_PER_PAGE)
        threw == "pageFetch" \in fail
    IN  [cache |-> IF threw THEN c7
                   ELSE WindowStored(c7, t, players, mode, pageNumber, s),
         rejected |-> threw,
         result |-> IF threw THEN NoResult
                    ELSE [players |-> players,
                          totalPages |-> totalPages,
                          currentPage |-> pageNumber,
                          hasNextPage |-> pageNumber < totalPages,
                          hasPrevPage |-> pageNumber > 1],
         path |-> path, anchor |-> cursorDocId, limit |-> limit,
         startIndex |-> startIndex, scan |-> pf.scan]

\* Between step 5 and step 7 of one call run alone nobody writes the cache.
WindowPageAlone(pf, t, del, baseQuery, totalPages, pageNumber, mode, s, fail) ==
    WindowPage(pf, pf.cache, t, del, baseQuery, totalPages, pageNumber, mode, s,
               fail)

\* One whole call of the windowed getPaginatedLeaderboard.
getPaginatedLeaderboardWindow(c, t, del, pageNumberIn, mode, searchTerm, fail) ==
    LET searchTermNormalized == NormalizedOf(searchTerm)
        baseQuery == buildBaseQueryWithoutPagination(mode, searchTermNormalized, del)
        totalPages == CeilDiv(Len(baseQuery), ITEMS_PER_PAGE)
        pageNumber == ValidatePage(pageNumberIn, totalPages)
    IN  IF "count" \in fail
        THEN [cache |-> c, rejected |-> TRUE, result |-> NoResult,
              path |-> "none", anchor |-> Null, limit |-> 0,
              startIndex |-> 0, scan |-> NoScan]
        ELSE WindowPageAlone(
                 prefetchCursorsAroundWindow(c, t, del, baseQuery, totalPages,
                                             pageNumber, mode,
                                             searchTermNormalized, fail),
                 t, del, baseQuery, totalPages, pageNumber, mode,
                 searchTermNormalized, fail)

WindowRequests ==
    {[page |-> p, mode |-> Disinformer, search |-> <<>>] : p \in {1, 2, 5, 9, 10}}
    \cup {[page |-> 2, mode |-> Netizen, search |-> <<"z">>]}
WindowFailSets == {{}, {"count"}, {"pageAnchorDoc"}, {"forwardScan"}, {"pageFetch"}}

WindowReturned(req, r, fail) ==
    /\ cache' = r.cache
    /\ prev' = last
    /\ last' = [req |-> req, done |-> ~r.rejected, rejected |-> r.rejected,
                fail |-> fail, at |-> now, del |-> deleted, result |-> r.result,
                path |-> r.path, anchor |-> r.anchor, limit |-> r.limit,
                startIndex |-> r.startIndex, scan |-> r.scan]
    /\ lastOp' = [op |-> "getPaginatedLeaderboard", mode |-> req.mode,
                  search |-> NormalizedOf(req.search)]

\* await getPaginatedLeaderboard(page, mode, search) of the windowed service
WindowCall ==
    /\ calls < MaxCalls
    /\ \E req \in WindowRequests, fail \in WindowFailSets :
          WindowReturned(req,
                         getPaginatedLeaderboardWindow(cache, now, deleted,
                                                       req.page, req.mode,
                                                       req.search, fail),
                         fail)
    /\ calls' = calls + 1
    /\ UNCHANGED <<now, deleted, pendingLast, ticks, walkPos, dCurrent, dLast,
                   dTotal, dResult, resolves, offsetTable, listener, cursorTable>>

NextWindow == WindowCall \/ DeletePlayer
SpecWindow == Init /\ [][NextWindow]_vars

\* C22: a windowed prefetch pass that scanned from the beginning of the
\* listing for a range starting above page 1 leaves, for every page of the
\* range it has an anchor for, the id of the last record of that page; the
\* call then returns the records of the page it was asked for.
C22_WindowFromStartAnchors ==
    ( /\ CallJustEnded /\ last.done /\ deleted = {} /\ last.fail = {}
      /\ last.scan.ran /\ ~last.scan.threw
      /\ last.scan.startPage > 1 /\ last.scan.fetchedFromStart )
    => /\ \A q \in last.scan.startPage..last.scan.endPage :
              q \in DOMAIN cache[LastCtxKey].cursors =>
                  cache[LastCtxKey].cursors[q]
                      = LastRecordOfPage(last.req.mode,
                                         NormalizedOf(last.req.search), q)
       /\ last.result.players
             = ListingPage(last.req.mode, NormalizedOf(last.req.search),
                           last.result.currentPage)

\* C26: the slice offset of a windowed call agrees with the page query it
\* issued: (pageNumber - 1) * pageSize when the query ran from the beginning
\* of the listing (no anchor, or the catch fallback), 0 when it ran after
\* the anchor of the previous page or for page 1.
C26_SliceAgreesWithQuery ==
    (CallJustEnded /\ last.done) =>
        last.startIndex =
            IF last.path \in {"miss", "fallback"}
            THEN (last.result.currentPage - 1) * ITEMS_PER_PAGE ELSE 0

\* The range the direction rules give for page p.
RangeRule(direction, p, totalPages) ==
    IF direction = "Forward"
    THEN <<Max(1, p - 3), Min(totalPages, p + 3)>>
    ELSE IF direction = "JumpToStart" THEN <<1, Min(totalPages, 4)>>
    ELSE <<Max(1, p - 3), p>>

MarkerRequests ==
    {[page |-> p, mode |-> Disinformer, search |-> <<>>] : p \in {1, 5, 10}}
MarkerFailSets == {{}, {"pageFetch"}, {"forwardScan"}, {"backwardScan"},
                   {"backwardScan", "forwardScan"}}
CallScanFailing ==
    /\ calls < MaxCalls
    /\ \E req \in MarkerRequests, fail \in MarkerFailSets : CallEffect(req, fail)
    /\ calls' = calls + 1
    /\ UNCHANGED <<now, deleted, ticks, walkPos, dCurrent, dLast, dTotal, dResult,
                   resolves, offsetTable, listener, cursorTable>>

NextMarker == CallScanFailing \/ LastPageArrives \/ Tick
SpecMarker == Init /\ [][NextMarker]_vars

\* The marker policy over one call step whose count query succeeded, with
\* failed telling whether the pass of the step counts as having failed:
\* a pass for a page already marked in a live entry issues no scan and
\* writes nothing (the call only records its page access); a pass for an
\* unmarked page that did not fail puts the page in the marker set and
\* issued no scan only if no page of its range lacked an anchor; a pass that
\* failed leaves the page unmarked and the cache unwritten, so that the next
\* pass for the page is again one for an unmarked page.
MarkerStep(failed) ==
    ( calls' = calls + 1 /\ "count" \notin last'.fail ) =>
        LET mode == last'.req.mode
            s == NormalizedOf(last'.req.search)
            totalPages == CeilDiv(Len(Listing(mode, s)), ITEMS_PER_PAGE)
            p == ValidatePage(last'.req.page, totalPages)
            key == getKey(mode, s)
            marked == isPrefetchedAround(cache, now, mode, p, s)
            rule == RangeRule(DirectionRules(p, getLastAccessedPage(cache, now,
                                                                    mode, s),
                                             totalPages), p, totalPages)
            accessOnly == IF last'.rejected THEN cache
                          ELSE recordPageAccess(cache, now, mode, p, s)
        IN  /\ marked => (~last'.scan.ran /\ cache' = accessOnly)
            /\ (~marked /\ ~failed) =>
                  /\ key \in DOMAIN cache'
                  /\ p \in cache'[key].prefetchedAroundPages
                  /\ ~last'.scan.ran =>
                        \A q \in rule[1]..rule[2] :
                            getCursor(cache, now, mode, q, s) # Null
            /\ (~marked /\ failed) =>
                  /\ ~isPrefetchedAround(cache', now, mode, p, s)
                  /\ cache' = accessOnly

\* C24 as stated: the pass failed when any of its fetches raised, the
\* backward scan that is retried forward included.
C24_MarkerPolicy ==
    [][MarkerStep(last'.scan.ran /\ last'.scan.raised)]_vars

\* C24, amended: the pass failed when a fetch error reached its catch, that
\* is when the forward scan (first choice or retry of a failed backward
\* scan) raised.
C24_MarkerPolicyCaught ==
    [][MarkerStep(last'.scan.ran /\ last'.scan.threw)]_vars
\* A pass completed and marked its page while a page of its range still
\* has no anchor, and the next call for that page scanned nothing.
C24_Witness ==
    /\ CallJustEnded /\ last.done /\ prev.done
    /\ prev.req = last.req
    /\ prev.scan.ran /\ ~prev.scan.threw
    /\ ~last.scan.ran
    /\ last.at = prev.at
    /\ \E q \in prev.scan.missing :
          getCursor(cache, now, last.req.mode, q, NormalizedOf(last.req.search))
              = Null

\* The cache c holds, for the last page of the context, the id of the final
\* record of its listing.
HoldsLastAnchor(c, mode, s) ==
    LET key == getKey(mode, s)
        all == Listing(mode, s)
        totalPages == CeilDiv(Len(all), ITEMS_PER_PAGE)
    IN  /\ Len(all) > 0
        /\ key \in DOMAIN c
        /\ totalPages \in DOMAIN c[key].cursors
        /\ c[key].cursors[totalPages] = all[Len(all)]

\* C25: a call that returns on a non-empty context leaves the anchor of the
\* last page in the cache or its query in flight; when a query in flight
\* completes without error the cache holds, for page totalPages, the id of
\* the final record of the canonical order; and once held it stays held
\* through every later call and completion.
C25_LastPageAnchor ==
    [][ /\ ( calls' = calls + 1 /\ last'.done
             /\ Len(Listing(last'.req.mode, NormalizedOf(last'.req.search))) > 0 )
           => \/ HoldsLastAnchor(cache', last'.req.mode,
                                 NormalizedOf(last'.req.search))
              \/ \E p \in pendingLast' :
                    /\ p.mode = last'.req.mode
                    /\ p.search = NormalizedOf(last'.req.search)
        /\ \A p \in pendingLast :
              ( pendingLast' = pendingLast \ {p} /\ ~p.fails /\ p.totalPages > 0 )
                 => HoldsLastAnchor(cache', p.mode, p.search)
        /\ \A ctx \in Contexts :
              HoldsLastAnchor(cache, ctx[1], ctx[2])
                 => HoldsLastAnchor(cache', ctx[1], ctx[2]) ]_vars
\* The query of a first call completed after a later call of the same
\* context had run.
C25_Witness ==
    /\ lastOp.op = "prefetchLastPageCursor"
    /\ calls = 2 /\ prev.done /\ last.done
    /\ prev.req.mode = last.req.mode /\ prev.req.search = last.req.search
    /\ lastOp.mode = last.req.mode
    /\ lastOp.search = NormalizedOf(last.req.search)
    /\ prev.result.currentPage # last.result.currentPage
    /\ last.result.totalPages > 1
    /\ pendingLast = {}
    /\ HoldsLastAnchor(cache, lastOp.mode, lastOp.search)

\* C27: the result a listener created with (pageNumber, mode, search) hands
\* to onUpdate equals, in players, totalPages, currentPage, hasNextPage and
\* hasPrevPage, what getPaginatedLeaderboard returns for the same arguments
\* on the same backend contents.
C27_ListenerMatchesResolver ==
    (listener.delivered /\ listener.del = deleted) =>
        listener.update =
            getPaginatedLeaderboard(cache, now, deleted, listener.pageNumber,
                                    listener.mode, listener.searchTerm, {}).result

\* C28: a subscription of subscribeToLeaderboardChanges has called
\* onLeaderboardChange once for every snapshot it received but the first:
\* never for the first snapshot, exactly once for each later one.
C28_InitialSnapshotSkipped ==
    /\ offsetTable.sub.invoked = Max(0, offsetTable.sub.snapshots - 1)
    /\ offsetTable.sub.isInitialSnapshot <=> offsetTable.sub.snapshots = 0
C28_Witness ==
    /\ offsetTable.sub.snapshots = 3
    /\ offsetTable.sub.invoked = 2
    /\ offsetTable.notice.refetched # Null

\* C29: an entry is stamped with the time of the write that creates it, no
\* setCursor, markPrefetchedAround or recordPageAccess on a live entry
\* changes that timestamp (only invalidate removes the entry), and the entry
\* is valid exactly while its age is at most the TTL.
C29_TimestampImmutable ==
    [][ \A key \in DOMAIN cache' :
           /\ key \notin DOMAIN cache => cache'[key].timestamp = now
           /\ (key \in DOMAIN cache /\ isEntryValid(cache, now, key))
                 => cache'[key].timestamp = cache[key].timestamp
           /\ isEntryValid(cache', now', key)
                 <=> now' - cache'[key].timestamp <= CURSOR_CACHE_TTL ]_vars
\* A write has just landed in an entry created one TTL earlier.
C29_Witness ==
    /\ lastOp.op \in {"setCursor", "markPrefetchedAround", "recordPageAccess"}
    /\ getKey(lastOp.mode, lastOp.search) \in DOMAIN lastOp.before
    /\ now = CURSOR_CACHE_TTL
    /\ cache[getKey(lastOp.mode, lastOp.search)].timestamp = 0
    /\ cache # lastOp.before
    /\ isEntryValid(cache, now, getKey(lastOp.mode, lastOp.search))

(* ------------------------ the cursor-based table ----------------------- *)
MaxPageChanges == 3
CursorTablePages == {1, 2, 5}
CursorTableFrame == UNCHANGED <<now, deleted, ticks, walkPos, dCurrent, dLast,
                                dTotal, dResult, resolves, offsetTable, listener>>

\* handlePageChange(page) of LeaderboardTableCursorBased: setCurrentPage and
\* an un-awaited fetchLeaderboardData; the effect with currentPage among its
\* dependencies then replaces the listener by one for the new page.
handlePageChangeCursor ==
    /\ cursorTable.changes < MaxPageChanges
    /\ \E page \in CursorTablePages :
          cursorTable' =
              [cursorTable EXCEPT
                  !.currentPage = page,
                  !.fetching = @ \cup {page},
                  !.subPage = page,
                  !.snapshotDue = IF page # cursorTable.currentPage THEN TRUE
                                  ELSE @,
                  !.changes = @ + 1]
    /\ lastOp' = NoOp
    /\ UNCHANGED <<cache, pendingLast, last, prev, calls>>
    /\ CursorTableFrame

\* The getPaginatedLeaderboard call of a fetchLeaderboardData resolved with
\* r: setData(result).
CursorFetched(page, r) ==
    /\ Returned([page |-> page, mode |-> Disinformer, search |-> <<>>], <<>>, r, {})
    /\ cursorTable' = [cursorTable EXCEPT !.data = r.result,
                                          !.fetching = @ \ {page}]

\* One of the fetches in flight completes.
fetchLeaderboardDataCursor ==
    /\ \E page \in cursorTable.fetching :
          CursorFetched(page,
                        getPaginatedLeaderboard(cache, now, deleted, page,
                                                Disinformer, <<>>, {}))
    /\ UNCHANGED calls
    /\ CursorTableFrame

\* The listener's onUpdate: setData(result).
CursorDelivered(r) ==
    /\ cache' = r.cache
    /\ cursorTable' = [cursorTable EXCEPT !.data = r.update,
                                          !.snapshotDue = FALSE]

\* The first snapshot of the live listener arrives.
CursorSnapshot ==
    /\ cursorTable.snapshotDue
    /\ CursorDelivered(subscribeToLeaderboardWithPagination(
                           cache, now, deleted, cursorTable.subPage,
                           Disinformer, <<>>))
    /\ lastOp' = [op |-> "onSnapshot", mode |-> Disinformer, search |-> <<>>]
    /\ UNCHANGED <<pendingLast, last, prev, calls>>
    /\ CursorTableFrame

NextCursorTable == handlePageChangeCursor \/ fetchLeaderboardDataCursor
                   \/ CursorSnapshot \/ LastPageArrives
SpecCursorTable == Init /\ [][NextCursorTable]_vars

\* C30: once every fetch in flight and the listener's snapshot have been
\* delivered, the table displays the page requested last: data.currentPage
\* equals the currentPage state.
C30_DisplaysLastRequested ==
    (cursorTable.fetching = {} /\ ~cursorTable.snapshotDue) =>
        cursorTable.data.currentPage = cursorTable.currentPage

====
